---- MODULE Spec2Model ----
(***************************************************************************)
(* AI Software House: the generate -> execute -> diagnose -> retry loop    *)
(* (src/src/workflow/graph_builder.py, src/src/agents/*.py) and the code   *)
(* executor (src/src/utils/code_executor.py).                              *)
(*                                                                         *)
(* A text is a sequence of tokens.  A code text is a sequence of statement *)
(* tokens; the executor interprets them one after the other, the way exec  *)
(* runs the statements of a module.                                        *)
(***************************************************************************)
EXTENDS Integers, Sequences, FiniteSets, TLC

VARIABLES
    state,              \* the AgentState held by the graph's channels
    pc,                 \* the node the graph runs next
    edge_writes_kept,   \* does the graph engine keep in-place writes made by the edge function
    dev_iters,          \* history: state["iteration"] read by the developer, one entry per pass
    qa_iters,           \* history: state["iteration"] read by the QA tester, one entry per pass
    sys_stdout,         \* the stream object installed as sys.stdout
    exec_code,          \* argument of the last CodeExecutor.execute call
    exec_old_stdout,    \* the stream that was installed when that call was made
    exec_exit,          \* "none" | "returned" | "raised": how that call left
    result,             \* the ExecutionResult it returned
    host_written,       \* what the executed code delivered to the stream installed at call time
    exec_calls,         \* number of CodeExecutor.execute calls made
    execution_namespace,\* the names bound in the dictionary the last call executed in
    process_globals,    \* attributes the executed code has set on modules of the interpreter
    settings,           \* the Settings the entry point was given
    request,            \* the user_request the entry point was given
    entry,              \* "cli" (main.run_workflow) or "ui" (the generate action of ui.py)
    pm_runs,            \* number of times the product-manager stage was entered
    llm_calls,          \* number of llm.invoke calls made
    probe,              \* SpecCalls: the code text whose calls are compared
    first_result,       \* SpecCalls: what the first call with probe returned
    ran_between,        \* SpecCalls: statements other calls have run since then
    llm_response,       \* SpecClean: the text llm.invoke returned to the developer stage
    sessions,           \* SpecConc: each session's position in its execute call and its locals
    streams,            \* SpecConc: what has been written to each stream object
    twin                \* SpecTwin: the state and position of the single-file workflow

vars == <<state, pc, edge_writes_kept, dev_iters, qa_iters, sys_stdout,
          exec_code, exec_old_stdout, exec_exit, result, host_written,
          exec_calls, execution_namespace, process_globals,
          settings, request, entry, pm_runs, llm_calls,
          probe, first_result, ran_between, llm_response, sessions, streams, twin>>

wf_vars == <<state, edge_writes_kept, dev_iters, qa_iters,
             settings, request, entry, pm_runs, llm_calls>>

exec_vars == <<sys_stdout, exec_code, exec_old_stdout, exec_exit, result, host_written,
               exec_calls, execution_namespace, process_globals>>

calls_vars == <<probe, first_result, ran_between>>

clean_vars == <<llm_response>>

conc_vars == <<sessions, streams>>

twin_vars == <<twin>>

----------------------------------------------------------------------------
(* Bounds *)

MaxStmts == 2        \* longest code text handed to the executor directly
MaxBody == 2         \* longest code body in a generator response
MaxIterLimit == 3    \* largest configured max_iterations
MaxPasses == 4       \* developer passes explored per run
MaxCalls == 3        \* execute calls explored when the executor is called on its own
MaxCallStmts == 2    \* longest code text in the comparison of repeated calls
MaxText == 5         \* longest generator output handed to clean_code on its own
MaxSessionStmts == 2 \* longest code text executed by each of two overlapping calls
MaxTwinText == 4     \* longest generator output given to both workflows
MaxTwinLimit == 2    \* largest max_iterations given to both workflows

----------------------------------------------------------------------------
(* Tokens of a code text *)

Fence == "<fence>"          \* the triple-backtick fence token

PrintTokens == {"print_a", "print_b"}

RaiseTokens == {"raise_NameError", "raise_AssertionError", "raise_MemoryError",
                "raise_SystemExit", "raise_KeyboardInterrupt"}

TagTokens == {"python", "py"}      \* a bare name on a line of its own

Blank == " "                       \* whitespace

\* "def_x": x = ...; "use_x": print(x);
\* "set_g": import sys; sys.g = ...; "use_g": import sys; print(sys.g)
NameTokens == {"def_x", "use_x", "set_g", "use_g"}

ExecTokens == PrintTokens \cup RaiseTokens \cup {"close", Fence, "py"}

RECURSIVE SeqsUpTo(_, _)
SeqsUpTo(S, n) ==
    IF n = 0 THEN {<< >>}
    ELSE LET shorter == SeqsUpTo(S, n - 1)
         IN  shorter \cup {Append(s, x) : s \in {t \in shorter : Len(t) = n - 1}, x \in S}

Programs == SeqsUpTo(ExecTokens, MaxStmts)

----------------------------------------------------------------------------
(* The exception hierarchy of Python, as far as an except-Exception clause sees it *)

BaseOnly == {"SystemExit", "KeyboardInterrupt", "GeneratorExit"}

IsException(cls) == cls \notin BaseOnly

RaisedClass(t) ==
    CASE t = "raise_NameError" -> "NameError"
      [] t = "raise_AssertionError" -> "AssertionError"
      [] t = "raise_MemoryError" -> "MemoryError"
      [] t = "raise_SystemExit" -> "SystemExit"
      [] t = "raise_KeyboardInterrupt" -> "KeyboardInterrupt"

\* str(e) of the exception a statement raises
Message(t) ==
    CASE t = "raise_NameError" -> "name x is not defined"
      [] t = "python" -> "name python is not defined"
      [] t = "py" -> "name py is not defined"
      [] t = "raise_SystemExit" -> "1"
      [] OTHER -> ""

Printed(t) ==
    CASE t = "print_a" -> "a\n"
      [] t = "print_b" -> "b\n"
      [] t = "use_x" -> "x\n"
      [] t = "use_g" -> "g\n"

NoException == [cls |-> "none", msg |-> ""]

\* exec runs the statements from the i-th on; written is the content of the
\* stream the statements print to, closed tells whether they closed it, ns is
\* the dictionary they run in and g the module attributes of the interpreter
RECURSIVE RunFrom(_, _, _, _, _, _)
RunFrom(code, i, written, closed, ns, g) ==
    LET stop(cls, msg) == [exc |-> [cls |-> cls, msg |-> msg], written |-> written,
                           closed |-> closed, ns |-> ns, g |-> g]
        print(t) == IF closed
                    THEN stop("ValueError", "I/O operation on closed file")
                    ELSE RunFrom(code, i + 1, Append(written, Printed(t)), closed, ns, g)
    IN  IF i > Len(code)
        THEN [exc |-> NoException, written |-> written, closed |-> closed,
              ns |-> ns, g |-> g]
        ELSE LET t == code[i] IN
             CASE t \in PrintTokens -> print(t)
               [] t = "close" -> RunFrom(code, i + 1, written, TRUE, ns, g)
               [] t \in RaiseTokens -> stop(RaisedClass(t), Message(t))
               [] t \in TagTokens -> stop("NameError", Message(t))
               [] t = "def_x" -> RunFrom(code, i + 1, written, closed, ns \cup {"x"}, g)
               [] t = "use_x" -> IF "x" \in ns THEN print(t)
                                 ELSE stop("NameError", "name x is not defined")
               [] t = "set_g" -> RunFrom(code, i + 1, written, closed, ns, g \cup {"g"})
               [] t = "use_g" -> IF "g" \in g THEN print(t)
                                 ELSE stop("AttributeError", "module sys has no attribute g")
               [] OTHER -> RunFrom(code, i + 1, written, closed, ns, g)

\* exec(code, execution_namespace): the text is compiled as a whole first
exec(code, ns, g) ==
    IF \E i \in 1..Len(code) : code[i] = Fence
    THEN [exc |-> [cls |-> "SyntaxError", msg |-> "invalid syntax (<string>, line 1)"],
          written |-> << >>, closed |-> FALSE, ns |-> ns, g |-> g]
    ELSE RunFrom(code, 1, << >>, FALSE, ns, g)

----------------------------------------------------------------------------
(* ExecutionResult and CodeExecutor.execute *)

None == << >>        \* Optional[str] without a value; an error text is never empty

NoNamespace == {"<None>"}    \* Optional[Dict] without a value

ExecutionResult(success, output, error, namespace) ==
    [success |-> success, output |-> output, error |-> error, namespace |-> namespace]

NoResult == [success |-> FALSE, output |-> << >>, error |-> None, namespace |-> NoNamespace]

\* f"{type(e).__name__}: {str(e)}"
FormatError(e) == <<e.cls, ": ", e.msg>>

\* sys.stdout = captured_output = io.StringIO()
redirect_target(installed) == "captured"

\* the except clause of execute
caught(e) == IsException(e.cls)

ClosedFile == [cls |-> "ValueError", msg |-> "I/O operation on closed file"]

\* output and error on the path through the except clause
failure_result(run, e) == ExecutionResult(FALSE, << >>, FormatError(e), NoNamespace)

\* a dictionary that outlives the call it was made for
namespace_kept(previous) == previous

\* execution_namespace: Dict[str, Any] = {}
new_namespace(previous) == {}

\* CodeExecutor.execute(code), called while `installed` is sys.stdout, after a
\* call that executed in the dictionary `previous`, in an interpreter whose
\* modules carry the attributes g.
\* exit: "returned" with result, or "raised" when an error leaves the call;
\* sys_stdout: the stream installed when the call is left.
execute(code, installed, previous, g) ==
    LET old_stdout == installed
        target == redirect_target(installed)
        run == exec(code, new_namespace(previous), g)
        buffer == IF target = "captured" THEN run.written ELSE << >>
        delivered == IF target = installed THEN run.written ELSE << >>
        \* captured_output.getvalue() raises on a closed buffer, inside the try block
        getvalue_exc == IF run.closed /\ target = "captured" THEN ClosedFile ELSE NoException
        e == IF run.exc # NoException THEN run.exc ELSE getvalue_exc
        left == [namespace |-> run.ns, globals |-> run.g, host_written |-> delivered]
    IN  IF e = NoException
        THEN [exit |-> "returned", sys_stdout |-> old_stdout, left |-> left,
              result |-> ExecutionResult(TRUE, buffer, None, run.ns)]
        ELSE IF caught(e)
        THEN [exit |-> "returned", sys_stdout |-> old_stdout, left |-> left,
              result |-> failure_result(run, e)]
        ELSE [exit |-> "raised", sys_stdout |-> target, left |-> left,
              result |-> NoResult]

\* a call of execute as a step: what it leaves in the process
Execute(code) ==
    LET r == execute(code, sys_stdout, execution_namespace, process_globals)
    IN  /\ exec_code' = code
        /\ exec_old_stdout' = sys_stdout
        /\ exec_exit' = r.exit
        /\ sys_stdout' = r.sys_stdout
        /\ result' = r.result
        /\ host_written' = r.left.host_written
        /\ execution_namespace' = r.left.namespace
        /\ process_globals' = r.left.globals
        /\ exec_calls' = exec_calls + 1

----------------------------------------------------------------------------
(* CodeExecutor.clean_code *)

RECURSIVE lstrip(_)
lstrip(s) == IF s # << >> /\ Head(s) = Blank THEN lstrip(Tail(s)) ELSE s

RECURSIVE rstrip(_)
rstrip(s) ==
    IF s # << >> /\ s[Len(s)] = Blank THEN rstrip(SubSeq(s, 1, Len(s) - 1)) ELSE s

strip(s) == rstrip(lstrip(s))

startswith(s, p) == Len(s) >= Len(p) /\ SubSeq(s, 1, Len(p)) = p

endswith(s, p) == Len(s) >= Len(p) /\ SubSeq(s, Len(s) - Len(p) + 1, Len(s)) = p

Occurrences(s, sep) ==
    {i \in 1..(Len(s) - Len(sep) + 1) : SubSeq(s, i, i + Len(sep) - 1) = sep}

Min(S) == CHOOSE x \in S : \A y \in S : x <= y

Max(S) == CHOOSE x \in S : \A y \in S : x >= y

\* s.split(sep, 1)[1], for s that contains sep
split_1(s, sep) == SubSeq(s, Min(Occurrences(s, sep)) + Len(sep), Len(s))

\* s.rsplit(sep, 1)[0], for s that contains sep
rsplit_0(s, sep) == SubSeq(s, 1, Max(Occurrences(s, sep)) - 1)

\* a clean_code that returns the text without the final strip
clean_code_untrimmed(code) ==
    LET c1 == strip(code)
        c2 == IF startswith(c1, <<Fence, "python">>) THEN split_1(c1, <<Fence, "python">>)
              ELSE IF startswith(c1, <<Fence>>) THEN split_1(c1, <<Fence>>)
              ELSE c1
    IN  IF endswith(c2, <<Fence>>) THEN rsplit_0(c2, <<Fence>>) ELSE c2

\* CodeExecutor.clean_code
clean_code(code) ==
    LET c1 == strip(code)
        c2 == IF startswith(c1, <<Fence, "python">>) THEN split_1(c1, <<Fence, "python">>)
              ELSE IF startswith(c1, <<Fence>>) THEN split_1(c1, <<Fence>>)
              ELSE c1
        c3 == IF endswith(c2, <<Fence>>) THEN rsplit_0(c2, <<Fence>>) ELSE c2
    IN  strip(c3)

----------------------------------------------------------------------------
(* The text-generation collaborator's answers *)

UserRequests == {"add two numbers", "is_palindrome"}

RequirementsTexts == {"r1", "r2"}

BodyTokens == {"print_a", "raise_NameError", "raise_SystemExit"}

Bodies == SeqsUpTo(BodyTokens, MaxBody)

Openers == {<< >>, <<Fence, Blank>>, <<Fence, "python", Blank>>, <<Fence, "py", Blank>>}

Closers == {<< >>, <<Blank, Fence, Blank>>}

Responses == {o \o b \o c : o \in Openers, b \in Bodies, c \in Closers}

\* self.llm.invoke(prompt).content: any answer, whatever the prompt
llm_invoke(prompt) == Responses

----------------------------------------------------------------------------
(* The stages *)

EmptyReport == [verdict |-> "", output |-> << >>, error |-> None, requirements |-> ""]

\* an initial state that takes the limit of the default settings
create_initial_state_default_limit(user_request, max_iterations) ==
    [user_request |-> user_request,
     requirements |-> "",
     code |-> << >>,
     test_report |-> EmptyReport,
     iteration |-> 1,
     max_iterations |-> MaxIterLimit,
     status |-> "in_progress"]

\* WorkflowBuilder.create_initial_state
create_initial_state(user_request, max_iterations) ==
    [user_request |-> user_request,
     requirements |-> "",
     code |-> << >>,
     test_report |-> EmptyReport,
     iteration |-> 1,
     max_iterations |-> max_iterations,
     status |-> "in_progress"]

\* a product-manager stage that also starts the iteration count again
product_manager_update_resetting(st, requirements) ==
    [st EXCEPT !.requirements = requirements, !.status = "in_progress", !.iteration = 0]

\* state["requirements"] = requirements; state["status"] = "in_progress"
product_manager_update(st, requirements) ==
    [st EXCEPT !.requirements = requirements, !.status = "in_progress"]

\* _create_initial_prompt(state["requirements"])
create_initial_prompt(requirements) ==
    [kind |-> "initial", requirements |-> requirements, code |-> << >>,
     test_report |-> EmptyReport]

\* _create_fix_prompt(state)
create_fix_prompt(st) ==
    [kind |-> "fix", requirements |-> st.requirements, code |-> st.code,
     test_report |-> st.test_report]

\* is_initial = iteration == 1, and the prompt chosen by it
developer_prompt(st) ==
    IF st.iteration = 1 THEN create_initial_prompt(st.requirements)
    ELSE create_fix_prompt(st)

\* a stage that calls llm.invoke a second time
llm_invoke_calls_with_retry(node) == IF node = "qa_tester" THEN 0 ELSE 2

\* the llm.invoke calls in the process method of a node
llm_invoke_calls(node) == IF node = "qa_tester" THEN 0 ELSE 1

\* a graph whose developer node is followed by the router at once
add_edge_skipping_qa(node) == IF node = "product_manager" THEN "developer" ELSE "router"

\* add_edge("product_manager", "developer"); add_edge("developer", "qa_tester")
add_edge(node) == IF node = "product_manager" THEN "developer" ELSE "qa_tester"

\* a report that leaves the requirements out
create_test_report_without_requirements(res, requirements) ==
    IF res.success
    THEN [verdict |-> "TEST PASSED", output |-> res.output,
          error |-> None, requirements |-> ""]
    ELSE [verdict |-> "TEST FAILED", output |-> << >>,
          error |-> res.error, requirements |-> ""]

\* QATesterAgent._create_test_report
create_test_report(res, requirements) ==
    IF res.success
    THEN [verdict |-> "TEST PASSED", output |-> res.output,
          error |-> None, requirements |-> ""]
    ELSE [verdict |-> "TEST FAILED", output |-> << >>,
          error |-> res.error, requirements |-> requirements]

\* a QA stage that reports success whatever the execution returned
qa_status_always_passed(res) == "passed"

\* "passed" if result.success else "in_progress"
qa_status(res) == IF res.success THEN "passed" ELSE "in_progress"

\* a ceiling test that lets one more pass through
ceiling_reached_exclusive(st) == st.iteration > st.max_iterations

\* state["iteration"] >= state["max_iterations"]
ceiling_reached(st) == st.iteration >= st.max_iterations

\* a router that does not look at the status before it tests the ceiling
route_without_passed_check(st) ==
    IF ceiling_reached(st)
    THEN [next |-> "end", state |-> [st EXCEPT !.status = "failed"]]
    ELSE [next |-> "developer", state |-> [st EXCEPT !.iteration = st.iteration + 1]]

\* Router.route: the value returned and the state as the function leaves it
route(st) ==
    IF st.status = "passed"
    THEN [next |-> "end", state |-> st]
    ELSE IF ceiling_reached(st)
    THEN [next |-> "end", state |-> [st EXCEPT !.status = "failed"]]
    ELSE [next |-> "developer", state |-> [st EXCEPT !.iteration = st.iteration + 1]]

\* the mapping of add_conditional_edges sends a passing run back to the start
path_map_reentering(choice) == IF choice = "developer" THEN "product_manager" ELSE "end"

\* {"developer": "developer", "end": END}
path_map(choice) == IF choice = "developer" THEN "developer" ELSE "end"

\* a stage that is run again when its llm.invoke call raises
stage_retried(node) == node

\* llm.invoke is called outside any try block and the nodes are added without
\* a retry policy: the error leaves the stage, the graph and the entry point
stage_error_target(node) == "raised"

\* a QA stage that executes only the first statement of the stored code
code_under_test_truncated(st) == IF st.code = << >> THEN << >> ELSE <<Head(st.code)>>

\* CodeExecutor.execute(state["code"])
code_under_test(st) == st.code

----------------------------------------------------------------------------
(* The entry points: main.run_workflow and the generate action of ui.py *)

Temperatures == {7, 11}          \* tenths

LogLevels == {"INFO", "VERBOSE"}

SettingsSet == [max_iterations : 0..MaxIterLimit,
                temperature : Temperatures,
                log_level : LogLevels]

\* validation that lets a ceiling of zero through
validate_nonnegative(st) ==
    IF ~(0 <= st.temperature /\ st.temperature <= 10)
    THEN "Temperature must be between 0.0 and 1.0"
    ELSE IF st.max_iterations < 0
    THEN "max_iterations must be at least 1"
    ELSE IF st.log_level \notin {"DEBUG", "INFO", "WARNING", "ERROR", "CRITICAL"}
    THEN "Invalid log level"
    ELSE "ok"

\* Settings.validate: "ok", or the message of the ValueError it raises
validate(st) ==
    IF ~(0 <= st.temperature /\ st.temperature <= 10)
    THEN "Temperature must be between 0.0 and 1.0"
    ELSE IF st.max_iterations < 1
    THEN "max_iterations must be at least 1"
    ELSE IF st.log_level \notin {"DEBUG", "INFO", "WARNING", "ERROR", "CRITICAL"}
    THEN "Invalid log level"
    ELSE "ok"

\* the AgentState variable before create_initial_state has run
NoState ==
    [user_request |-> "", requirements |-> "", code |-> << >>,
     test_report |-> EmptyReport, iteration |-> 0, max_iterations |-> 0,
     status |-> "none"]

exec_rest == <<exec_code, exec_old_stdout, exec_exit, result, host_written,
               exec_calls, execution_namespace, process_globals>>

\* capture_workflow_output restores sys.stdout when it returns and in its
\* except-Exception clause; run_workflow leaves sys.stdout alone
stdout_on_exit(current) == IF entry = "ui" THEN "host" ELSE current

\* run_workflow up to workflow.invoke; in the UI, the generate action up to
\* workflow.invoke inside capture_workflow_output
Enter ==
    /\ pc = "entry"
    /\ IF validate(settings) # "ok"
       THEN /\ pc' = "config_error"
            /\ UNCHANGED <<state, sys_stdout>>
       ELSE /\ state' = create_initial_state(request, settings.max_iterations)
            /\ sys_stdout' = IF entry = "ui" THEN "ui_buffer" ELSE sys_stdout
            /\ pc' = "product_manager"
    /\ UNCHANGED <<edge_writes_kept, dev_iters, qa_iters, settings, request, entry,
                   pm_runs, llm_calls, exec_rest, calls_vars, clean_vars, conc_vars, twin_vars>>

\* workflow.invoke returns the final state to the entry point
Return ==
    /\ pc = "end"
    /\ pc' = "returned"
    /\ sys_stdout' = stdout_on_exit(sys_stdout)
    /\ UNCHANGED <<wf_vars, exec_rest, calls_vars, clean_vars, conc_vars, twin_vars>>

----------------------------------------------------------------------------
(* The nodes and the conditional edge *)

\* ProductManagerAgent.process
ProductManager ==
    /\ pc = "product_manager"
    /\ pm_runs' = pm_runs + 1
    /\ llm_calls' = llm_calls + llm_invoke_calls("product_manager")
    /\ \/ \E requirements \in RequirementsTexts :
            /\ state' = product_manager_update(state, requirements)
            /\ pc' = add_edge("product_manager")
            /\ sys_stdout' = sys_stdout
       \/ \* self.llm.invoke raises
          /\ pc' = stage_error_target("product_manager")
          /\ state' = state
          /\ sys_stdout' = IF pc' = "raised" THEN stdout_on_exit(sys_stdout) ELSE sys_stdout
    /\ UNCHANGED <<edge_writes_kept, dev_iters, qa_iters, settings, request, entry,
                   exec_rest, calls_vars, clean_vars, conc_vars, twin_vars>>

\* DeveloperAgent.process
Developer ==
    /\ pc = "developer"
    /\ Len(dev_iters) < MaxPasses
    /\ dev_iters' = Append(dev_iters, state.iteration)
    /\ llm_calls' = llm_calls + llm_invoke_calls("developer")
    /\ \/ \E response \in llm_invoke(developer_prompt(state)) :
            /\ state' = [state EXCEPT !.code = clean_code(response)]
            /\ pc' = add_edge("developer")
            /\ sys_stdout' = sys_stdout
       \/ \* self.llm.invoke raises
          /\ pc' = stage_error_target("developer")
          /\ state' = state
          /\ sys_stdout' = IF pc' = "raised" THEN stdout_on_exit(sys_stdout) ELSE sys_stdout
    /\ UNCHANGED <<edge_writes_kept, qa_iters, settings, request, entry, pm_runs,
                   exec_rest, calls_vars, clean_vars, conc_vars, twin_vars>>

\* QATesterAgent.process; an error that execute lets through is not an
\* Exception, so no except clause on its way out restores sys.stdout
QATester ==
    /\ pc = "qa_tester"
    /\ qa_iters' = Append(qa_iters, state.iteration)
    /\ llm_calls' = llm_calls + llm_invoke_calls("qa_tester")
    /\ Execute(code_under_test(state))
    /\ IF exec_exit' = "returned"
       THEN /\ state' = [state EXCEPT
                            !.test_report = create_test_report(result', state.requirements),
                            !.status = qa_status(result')]
            /\ pc' = "router"
       ELSE /\ state' = state
            /\ pc' = "raised"
    /\ UNCHANGED <<edge_writes_kept, dev_iters, settings, request, entry, pm_runs,
                   calls_vars, clean_vars, conc_vars, twin_vars>>

\* The conditional edge out of qa_tester: Router.route picks the next node.
\* Nodes hand their state to the graph by returning it; the edge function
\* returns only the name of the next node, so what it assigns to the
\* dictionary it was given reaches the next node only if the engine passed it
\* the channels' own dictionary and not a copy read from them.
Route ==
    /\ pc = "router"
    /\ LET decision == route(state)
       IN  /\ pc' = path_map(decision.next)
           /\ state' = IF edge_writes_kept THEN decision.state ELSE state
    /\ UNCHANGED <<edge_writes_kept, dev_iters, qa_iters, settings, request, entry,
                   pm_runs, llm_calls, exec_vars, calls_vars, clean_vars, conc_vars, twin_vars>>

\* the sessions of the UI that share the process, and the stream objects
Sessions == {"session_1", "session_2"}

StreamObjects == {"host"} \cup {"captured_" \o t : t \in Sessions}

NoCleaning == llm_response = << >>

NoTwin == twin = [pc |-> "none", state |-> NoState]

NoSessions ==
    /\ sessions = [t \in Sessions |-> [at |-> "idle", code |-> << >>, next |-> 1,
                                       old_stdout |-> "host", e |-> NoException,
                                       result |-> NoResult]]
    /\ streams = [f \in StreamObjects |-> << >>]

NoCalls ==
    /\ probe = << >>
    /\ first_result = NoResult
    /\ ran_between = {}

NoExecution ==
    /\ exec_code = << >>
    /\ exec_old_stdout = sys_stdout
    /\ exec_exit = "none"
    /\ result = NoResult
    /\ host_written = << >>
    /\ exec_calls = 0
    /\ execution_namespace = {}
    /\ process_globals = {}

Init ==
    /\ settings \in SettingsSet
    /\ request \in UserRequests
    /\ entry \in {"cli", "ui"}
    /\ state = NoState
    /\ pc = "entry"
    /\ edge_writes_kept \in BOOLEAN
    /\ dev_iters = << >>
    /\ qa_iters = << >>
    /\ pm_runs = 0
    /\ llm_calls = 0
    /\ sys_stdout = "host"
    /\ NoExecution
    /\ NoCalls
    /\ NoCleaning
    /\ NoSessions
    /\ NoTwin

Next == Enter \/ ProductManager \/ Developer \/ QATester \/ Route \/ Return

Spec == Init /\ [][Next]_vars

----------------------------------------------------------------------------
(* The executor called on its own *)

NoWorkflow ==
    /\ state = NoState
    /\ settings \in {s \in SettingsSet : s.max_iterations = 1 /\ validate(s) = "ok"}
    /\ request = "add two numbers"
    /\ entry = "cli"
    /\ edge_writes_kept = FALSE
    /\ dev_iters = << >>
    /\ qa_iters = << >>
    /\ pm_runs = 0
    /\ llm_calls = 0

ExecuteCall ==
    /\ pc = "caller"
    /\ exec_exit # "raised"
    /\ exec_calls < MaxCalls
    /\ \E code \in Programs : Execute(code)
    /\ UNCHANGED <<pc, wf_vars, calls_vars, clean_vars, conc_vars, twin_vars>>

InitExec ==
    /\ NoWorkflow
    /\ pc = "caller"
    /\ sys_stdout \in {"host", "ui_buffer"}
    /\ NoExecution
    /\ NoCalls
    /\ NoCleaning
    /\ NoSessions
    /\ NoTwin

NextExec == ExecuteCall

SpecExec == InitExec /\ [][NextExec]_vars

----------------------------------------------------------------------------
(* Repeated calls of the executor with one code text among others *)

CallTokens == NameTokens

CallPrograms == SeqsUpTo(CallTokens, MaxCallStmts)

Statements(code) == {code[i] : i \in 1..Len(code)}

CallProbe ==
    /\ pc = "caller"
    /\ exec_calls < MaxCalls
    /\ Execute(probe)
    /\ first_result' = IF first_result = NoResult THEN result' ELSE first_result
    /\ UNCHANGED <<pc, wf_vars, probe, ran_between, clean_vars, conc_vars, twin_vars>>

CallOther ==
    /\ pc = "caller"
    /\ exec_calls < MaxCalls
    /\ \E code \in CallPrograms :
          /\ Execute(code)
          /\ ran_between' = IF first_result = NoResult THEN ran_between
                            ELSE ran_between \cup Statements(code)
    /\ UNCHANGED <<pc, wf_vars, probe, first_result, clean_vars, conc_vars, twin_vars>>

InitCalls ==
    /\ NoWorkflow
    /\ pc = "caller"
    /\ sys_stdout = "host"
    /\ NoExecution
    /\ probe \in CallPrograms
    /\ first_result = NoResult
    /\ ran_between = {}
    /\ NoCleaning
    /\ NoSessions
    /\ NoTwin

NextCalls == CallProbe \/ CallOther

SpecCalls == InitCalls /\ [][NextCalls]_vars

----------------------------------------------------------------------------
(* The developer stage storing one generator output *)

TextTokens == {Fence, Blank, "print_a"} \cup TagTokens

Texts == SeqsUpTo(TextTokens, MaxText)

\* DeveloperAgent.process from the return of llm.invoke on
StoreResponse ==
    /\ pc = "developer"
    /\ dev_iters' = Append(dev_iters, state.iteration)
    /\ llm_calls' = llm_calls + 1
    /\ state' = [state EXCEPT !.code = clean_code(llm_response)]
    /\ pc' = "qa_tester"
    /\ UNCHANGED <<edge_writes_kept, qa_iters, settings, request, entry, pm_runs,
                   exec_vars, calls_vars, clean_vars, conc_vars, twin_vars>>

InitClean ==
    /\ settings \in {s \in SettingsSet : s.max_iterations = 1 /\ validate(s) = "ok"}
    /\ request = "add two numbers"
    /\ entry = "cli"
    /\ state = [create_initial_state(request, settings.max_iterations)
                  EXCEPT !.requirements = "r1"]
    /\ pc = "developer"
    /\ edge_writes_kept = FALSE
    /\ dev_iters = << >>
    /\ qa_iters = << >>
    /\ pm_runs = 1
    /\ llm_calls = 1
    /\ sys_stdout = "host"
    /\ NoExecution
    /\ NoCalls
    /\ llm_response \in Texts
    /\ NoSessions
    /\ NoTwin

NextClean == StoreResponse

SpecClean == InitClean /\ [][NextClean]_vars

----------------------------------------------------------------------------
(* Two sessions of one process inside CodeExecutor.execute at the same time *)

SessionTokens == {"print_a", "raise_NameError"}

SessionPrograms == SeqsUpTo(SessionTokens, MaxSessionStmts)

captured_output(t) == "captured_" \o t

at(t) == sessions[t].at

\* old_stdout = sys.stdout
SaveStdout(t) ==
    /\ at(t) = "called"
    /\ sessions' = [sessions EXCEPT ![t].old_stdout = sys_stdout, ![t].at = "saved"]
    /\ UNCHANGED <<sys_stdout, streams>>

\* sys.stdout = captured_output = io.StringIO()
RedirectStdout(t) ==
    /\ at(t) = "saved"
    /\ sys_stdout' = captured_output(t)
    /\ sessions' = [sessions EXCEPT ![t].at = "exec"]
    /\ UNCHANGED streams

\* exec(code, execution_namespace), one statement of the code at a time; print
\* writes to the object sys.stdout names when the statement runs
ExecStatement(t) ==
    /\ at(t) = "exec"
    /\ LET code == sessions[t].code
           i == sessions[t].next
       IN  IF i > Len(code)
           THEN /\ sessions' = [sessions EXCEPT ![t].at = "restore"]
                /\ UNCHANGED streams
           ELSE IF code[i] \in PrintTokens
           THEN /\ streams' = [streams EXCEPT ![sys_stdout] = Append(@, <<t, Printed(code[i])>>)]
                /\ sessions' = [sessions EXCEPT ![t].next = i + 1]
           ELSE /\ sessions' = [sessions EXCEPT
                                  ![t].e = [cls |-> RaisedClass(code[i]), msg |-> Message(code[i])],
                                  ![t].at = "except"]
                /\ UNCHANGED streams
    /\ UNCHANGED sys_stdout

\* sys.stdout = old_stdout on the success path
RestoreStdout(t) ==
    /\ at(t) = "restore"
    /\ sys_stdout' = sessions[t].old_stdout
    /\ sessions' = [sessions EXCEPT ![t].at = "getvalue"]
    /\ UNCHANGED streams

\* output = captured_output.getvalue() and the return of the result
ReturnSuccess(t) ==
    /\ at(t) = "getvalue"
    /\ sessions' = [sessions EXCEPT
                      ![t].result = ExecutionResult(TRUE, streams[captured_output(t)], None, {}),
                      ![t].at = "returned"]
    /\ UNCHANGED <<sys_stdout, streams>>

\* the except clause: sys.stdout = old_stdout, then the return of the result
ReturnFailure(t) ==
    /\ at(t) = "except"
    /\ sys_stdout' = sessions[t].old_stdout
    /\ sessions' = [sessions EXCEPT
                      ![t].result = ExecutionResult(FALSE, << >>, FormatError(sessions[t].e),
                                                    NoNamespace),
                      ![t].at = "returned"]
    /\ UNCHANGED streams

SessionStep(t) ==
    /\ pc = "sessions"
    /\ \/ SaveStdout(t)
       \/ RedirectStdout(t)
       \/ ExecStatement(t)
       \/ RestoreStdout(t)
       \/ ReturnSuccess(t)
       \/ ReturnFailure(t)
    /\ UNCHANGED <<pc, wf_vars, exec_rest, calls_vars, clean_vars, twin_vars>>

InitConc ==
    /\ NoWorkflow
    /\ pc = "sessions"
    /\ sys_stdout = "host"
    /\ NoExecution
    /\ NoCalls
    /\ NoCleaning
    /\ sessions \in [Sessions -> {[at |-> "called", code |-> c, next |-> 1,
                                    old_stdout |-> "host", e |-> NoException,
                                    result |-> NoResult] : c \in SessionPrograms}]
    /\ streams = [f \in StreamObjects |-> << >>]
    /\ NoTwin

NextConc == \E t \in Sessions : SessionStep(t)

SpecConc == InitConc /\ [][NextConc]_vars

----------------------------------------------------------------------------
(* main: the command-line entry point around run_workflow *)

\* the class of the error that left run_workflow through CodeExecutor.execute
escaped_class == exec(exec_code, {}, {}).exc.cls

\* main from the return or the raise of run_workflow on: return 0 if
\* final_state["status"] == "passed" else 1; except ValueError: return 1;
\* except Exception: return 1; anything else leaves main unhandled
Main ==
    /\ entry = "cli"
    /\ pc \in {"returned", "config_error", "raised"}
    /\ pc' = CASE pc = "returned" -> IF state.status = "passed" THEN "exit_0" ELSE "exit_1"
                [] pc = "config_error" -> "exit_1"
                [] pc = "raised" /\ exec_exit # "raised" -> "exit_1"
                [] pc = "raised" /\ exec_exit = "raised" ->
                       IF IsException(escaped_class) THEN "exit_1" ELSE "unhandled"
    /\ UNCHANGED <<wf_vars, exec_vars, calls_vars, clean_vars, conc_vars, twin_vars>>

InitMain ==
    /\ Init
    /\ entry = "cli"
    /\ request = "is_palindrome"

NextMain == Next \/ Main

SpecMain == InitMain /\ [][NextMain]_vars

----------------------------------------------------------------------------
(* The single-file workflow of software_house.py next to the modular one *)

TwinTokens == {Fence, "python", "print_a", "raise_NameError"}

TwinResponses == SeqsUpTo(TwinTokens, MaxTwinText)

\* developer_node: the cleaning of response.content
clean_code_single_file(content) ==
    LET c1 == strip(content)
        c2 == IF startswith(c1, <<Fence, "python">>) THEN split_1(c1, <<Fence, "python">>)
              ELSE c1
        c3 == IF startswith(c2, <<Fence>>) THEN split_1(c2, <<Fence>>) ELSE c2
        c4 == IF endswith(c3, <<Fence>>) THEN rsplit_0(c3, <<Fence>>) ELSE c3
    IN  strip(c4)

\* qa_tester_node: exec in a fresh namespace, error_message = str(e)
qa_tester_node(st) ==
    LET run == exec(st.code, {}, {})
    IN  IF run.exc = NoException
        THEN [st EXCEPT !.status = "passed",
                        !.test_report = [verdict |-> "TEST PASSED", output |-> run.written,
                                         error |-> None, requirements |-> ""]]
        ELSE [st EXCEPT !.status = "in_progress",
                        !.test_report = [verdict |-> "TEST FAILED", output |-> << >>,
                                         error |-> <<run.exc.msg>>,
                                         requirements |-> st.requirements]]

\* route_to_developer_or_end: the value returned and the state as it leaves it
route_to_developer_or_end(st) ==
    IF st.status = "passed"
    THEN [next |-> "end", state |-> st]
    ELSE IF st.iteration >= st.max_iterations
    THEN [next |-> "end", state |-> [st EXCEPT !.status = "failed"]]
    ELSE [next |-> "developer", state |-> [st EXCEPT !.iteration = st.iteration + 1]]

\* both developer stages are given the same generator output
TwinDeveloper ==
    /\ pc = "developer"
    /\ twin.pc = "developer"
    /\ Len(dev_iters) < MaxPasses
    /\ dev_iters' = Append(dev_iters, state.iteration)
    /\ llm_calls' = llm_calls + llm_invoke_calls("developer")
    /\ \E response \in TwinResponses :
          /\ state' = [state EXCEPT !.code = clean_code(response)]
          /\ twin' = [twin EXCEPT !.state.code = clean_code_single_file(response),
                                  !.pc = "qa_tester"]
    /\ pc' = add_edge("developer")
    /\ UNCHANGED <<edge_writes_kept, qa_iters, settings, request, entry, pm_runs,
                   exec_vars, calls_vars, clean_vars, conc_vars>>

\* both QA stages execute the code their developer stage stored; the record
\* of the last execute call is not kept here, only what the stage stores
TwinQATester ==
    /\ pc = "qa_tester"
    /\ twin.pc = "qa_tester"
    /\ qa_iters' = Append(qa_iters, state.iteration)
    /\ LET r == execute(code_under_test(state), sys_stdout, {}, process_globals)
       IN  /\ r.exit = "returned"
           /\ sys_stdout' = r.sys_stdout
           /\ state' = [state EXCEPT
                           !.test_report = create_test_report(r.result, state.requirements),
                           !.status = qa_status(r.result)]
    /\ pc' = "router"
    /\ twin' = [twin EXCEPT !.state = qa_tester_node(twin.state), !.pc = "router"]
    /\ UNCHANGED <<edge_writes_kept, dev_iters, settings, request, entry, pm_runs,
                   llm_calls, exec_rest, calls_vars, clean_vars, conc_vars>>

\* both conditional edges decide; the engine treats their writes alike
TwinRoute ==
    /\ pc = "router"
    /\ twin.pc = "router"
    /\ LET decision == route(state)
           twin_decision == route_to_developer_or_end(twin.state)
       IN  /\ pc' = path_map(decision.next)
           /\ state' = IF edge_writes_kept THEN decision.state ELSE state
           /\ twin' = [pc |-> path_map(twin_decision.next),
                       state |-> IF edge_writes_kept THEN twin_decision.state
                                 ELSE twin.state]
    /\ UNCHANGED <<edge_writes_kept, dev_iters, qa_iters, settings, request, entry,
                   pm_runs, llm_calls, exec_vars, calls_vars, clean_vars, conc_vars>>

InitTwin ==
    /\ settings \in {s \in SettingsSet :
                        s.max_iterations <= MaxTwinLimit /\ validate(s) = "ok"}
    /\ request = "add two numbers"
    /\ entry = "cli"
    /\ state = [create_initial_state(request, settings.max_iterations)
                  EXCEPT !.requirements = "r1"]
    /\ twin = [pc |-> "developer", state |-> state]
    /\ pc = "developer"
    /\ edge_writes_kept \in BOOLEAN
    /\ dev_iters = << >>
    /\ qa_iters = << >>
    /\ pm_runs = 1
    /\ llm_calls = 1
    /\ sys_stdout = "host"
    /\ NoExecution
    /\ NoCalls
    /\ NoCleaning
    /\ sessions = [t \in Sessions |-> [at |-> "idle", code |-> << >>, next |-> 1,
                                       old_stdout |-> "host", e |-> NoException,
                                       result |-> NoResult]]
    /\ streams = [f \in StreamObjects |-> << >>]

NextTwin == TwinDeveloper \/ TwinQATester \/ TwinRoute

SpecTwin == InitTwin /\ [][NextTwin]_vars

----------------------------------------------------------------------------
(* Properties of the iteration controller, checked under Spec *)

iteration == state.iteration

max_iterations == state.max_iterations

status == state.status

Passes == Len(dev_iters)

\* the entry point has built the initial state and invoked the graph
Started == pc \notin {"entry", "config_error"}

LastValidationFailed == exec_exit = "returned" /\ ~result.success

\* C1: a run makes at most max_iterations developer+QA passes, and when it
\* ends its status is passed or failed.
C1_EndsWithinMaxIterations ==
    /\ Passes <= max_iterations
    /\ pc = "end" => status \in {"passed", "failed"}

\* C2: a run that ended with status failed has iteration = max_iterations
\* and a failed last validation; a run whose last validation failed at the
\* ceiling ends as failed.
C2_FailedExactlyAtCeiling ==
    /\ (pc = "end" /\ status = "failed") =>
           (iteration = max_iterations /\ LastValidationFailed)
    /\ (pc = "end" /\ LastValidationFailed) => status = "failed"

\* C3: status = passed implies that the most recent execution returned
\* success = true, and only a QA step with a successful execution makes the
\* status passed.
C3_PassedMeansLastExecutionSucceeded ==
    /\ [](status = "passed" => (exec_exit = "returned" /\ result.success))
    /\ [][(state'.status = "passed" /\ status # "passed")
             => (pc = "qa_tester" /\ exec_exit' = "returned" /\ result'.success)]_vars

C3_Witness ==
    /\ pc = "end"
    /\ status = "passed"
    /\ Len(qa_iters) >= 2
    /\ result.output # << >>

\* C4: in a run started with max_iterations >= 1,
\* 1 <= iteration <= max_iterations in every state, and no step decreases
\* iteration.
C4_IterationWithinLimitAndMonotone ==
    /\ [](Started => (1 <= iteration /\ iteration <= max_iterations))
    /\ [][Started => state'.iteration >= iteration]_vars

C4_Witness ==
    /\ pc = "end"
    /\ status = "failed"
    /\ max_iterations >= 2
    /\ iteration = max_iterations

\* C5: the k-th developer pass and the k-th QA pass of a run read
\* iteration = k.
C5_PassKRunsWithIterationK ==
    /\ \A k \in 1..Len(dev_iters) : dev_iters[k] = k
    /\ \A k \in 1..Len(qa_iters) : qa_iters[k] = k

----------------------------------------------------------------------------
(* Properties of CodeExecutor.execute, checked under SpecExec *)

Called == exec_exit # "none"

Returned == exec_exit = "returned"

\* what running the code text does on its own: the error it raises, if any,
\* and the text it has written by then
Raises(code) == exec(code, {}, {}).exc # NoException

WrittenBy(code) == exec(code, {}, {}).written

\* C6: whatever the code raises, execute returns an ExecutionResult; no
\* error leaves the call.
C6_NoErrorEscapesExecute == Called => Returned

\* C7: when execute is left, sys.stdout is the stream that was installed
\* when it was called.
C7_StdoutRestoredOnEveryExit == Called => sys_stdout = exec_old_stdout

\* C8: for code that completes without raising, execute returns
\* success = true, output = exactly what the code wrote, error absent, and
\* nothing of it reached the stream of the caller.
C8_CleanRunReturnsItsOutput ==
    (Called /\ ~Raises(exec_code)) =>
        /\ Returned
        /\ result.success
        /\ result.output = WrittenBy(exec_code)
        /\ result.error = None
        /\ host_written = << >>

\* C9: for code that raises, execute returns success = false and
\* error = class name, ": ", message; a result has an error iff it has
\* success = false.
C9_RaisingCodeReturnsClassAndMessage ==
    /\ (Called /\ Raises(exec_code)) =>
           /\ Returned
           /\ ~result.success
           /\ result.error = <<exec(exec_code, {}, {}).exc.cls, ": ",
                             exec(exec_code, {}, {}).exc.msg>>
    /\ Returned => (result.error # None <=> ~result.success)

\* C10: for code that writes and then raises, the returned result has
\* output = the text written before the failure.
C10_OutputKeptWhenCodeRaises ==
    (Returned /\ Raises(exec_code) /\ WrittenBy(exec_code) # << >>) =>
        result.output = WrittenBy(exec_code)

----------------------------------------------------------------------------
(* Properties of repeated calls of the executor, checked under SpecCalls *)

ReadsProcessState(code) == "use_g" \in Statements(code)

----------------------------------------------------------------------------
(* Properties of a whole run, checked under Spec *)

\* the report of executing the code text stored in st
ReportOf(st) ==
    create_test_report(execute(st.code, "host", {}, {}).result, st.requirements)

\* the QA stage has returned for the latest developer pass
ValidationDone ==
    /\ Len(qa_iters) >= 1
    /\ Len(qa_iters) = Len(dev_iters)
    /\ exec_exit = "returned"

\* C12: in every state that holds a report, test_report is the report of
\* executing the code stored in the code field.
C12_ReportIsOfStoredCode ==
    (Started /\ state.test_report # EmptyReport) => state.test_report = ReportOf(state)

\* C12, amended: in every state in which the QA stage has returned for the
\* latest developer pass (at the router, before the next pass starts, in the
\* final state) test_report is the report of executing the stored code.
C12_ReportIsOfStoredCodeAfterValidation ==
    ValidationDone => state.test_report = ReportOf(state)

C12_Witness ==
    /\ pc = "router"
    /\ Len(qa_iters) = 2
    /\ state.test_report.verdict = "TEST PASSED"
    /\ state.test_report.output # << >>

\* the text-generation call of the stage that ran last raised
LlmRaised == pc = "raised" /\ exec_exit # "raised"

C14_ConfigErrorBeforeAnyStage ==
    /\ [](settings.max_iterations < 1 =>
            /\ pc \in {"entry", "config_error"}
            /\ state = NoState
            /\ pm_runs = 0 /\ llm_calls = 0 /\ exec_calls = 0 /\ Passes = 0
            /\ sys_stdout = "host")
    /\ [][(pc = "entry" /\ settings.max_iterations < 1) => pc' = "config_error"]_vars

C14_Witness ==
    /\ pc = "config_error"
    /\ validate(settings) = "max_iterations must be at least 1"
    /\ entry = "ui"

\* C15: a run that ends by exhaustion returns a final state with status
\* failed, the code of the last pass and the report of executing it.
C15_ExhaustionReturnsLastAttempt ==
    (pc = "returned" /\ LastValidationFailed) =>
        /\ status = "failed"
        /\ state.code = exec_code
        /\ state.test_report = create_test_report(result, state.requirements)

\* C16: a run whose k-th pass is the first to pass validation ends with
\* status passed and iteration = k.
C16_PassOnKthAttemptEndsWithIterationK ==
    (pc \in {"end", "returned"} /\ exec_exit = "returned" /\ result.success) =>
        /\ status = "passed"
        /\ iteration = Len(qa_iters)

\* C18: the product-manager stage is entered exactly once in a run, before
\* the first developer pass, and never again.
C18_ProductManagerRunsOnce ==
    /\ [](pm_runs <= 1)
    /\ []((Passes >= 1 \/ pc \in {"end", "returned", "raised"}) => pm_runs = 1)
    /\ [][pm_runs' # pm_runs => (Passes = 0 /\ pc = "product_manager")]_vars

C18_Witness ==
    /\ pc = "returned"
    /\ Passes >= 3
    /\ pm_runs = 1

\* a stage ran in the step
StageRan == dev_iters' # dev_iters \/ qa_iters' # qa_iters \/ pm_runs' # pm_runs

----------------------------------------------------------------------------
(* Properties of the stored code text, checked under SpecClean *)

InnerTexts == SeqsUpTo({Blank, "print_a"}, MaxText)

LanguageTags == {<< >>} \cup {<<tag>> : tag \in TagTokens}

\* the inner texts of which text is the fenced form: a leading fence, an
\* optional language tag, the inner text, a trailing fence
FencedInner(text) ==
    {inner \in InnerTexts :
        \E tag \in LanguageTags : strip(text) = <<Fence>> \o tag \o inner \o <<Fence>>}

\* C17: for a generator output that is code between a leading fence with an
\* optional language tag and a trailing fence, the stored code holds no
\* fence and no language tag and is the trimmed inner code.
C17_FencedOutputStoredBare ==
    (pc = "qa_tester" /\ FencedInner(llm_response) # {}) =>
        /\ Fence \notin Statements(state.code)
        /\ Statements(state.code) \cap TagTokens = {}
        /\ \A inner \in FencedInner(llm_response) : state.code = strip(inner)

----------------------------------------------------------------------------
(* Properties of overlapping calls of the executor, checked under SpecConc *)

BothReturned == \A t \in Sessions : at(t) = "returned"

\* C19: after two overlapping execute calls have both returned, sys.stdout
\* is the host stream again and each result holds only what its own code
\* printed.
C19_OverlappingCallsAreIsolated ==
    BothReturned =>
        /\ sys_stdout = "host"
        /\ \A t \in Sessions :
              \A i \in 1..Len(sessions[t].result.output) :
                  sessions[t].result.output[i][1] = t

----------------------------------------------------------------------------
(* Properties of the stages within a run, checked under Spec *)

\* C21: in every pass the developer runs before the QA stage and the router
\* after it; the QA stage executes the code the developer of the same pass
\* stored, and the router reads the status the QA stage of that pass wrote.
C21_StagesRunInOrderWithinPass ==
    /\ [][dev_iters' # dev_iters => (pc = "developer" /\ Len(qa_iters) = Len(dev_iters))]_vars
    /\ [][qa_iters' # qa_iters =>
            /\ pc = "qa_tester"
            /\ Len(qa_iters') = Len(dev_iters)
            /\ exec_code' = state.code]_vars
    /\ [][pc' # pc =>
            /\ (pc' = "qa_tester" => (pc = "developer" /\ dev_iters' # dev_iters))
            /\ (pc' = "router" => (pc = "qa_tester" /\ qa_iters' # qa_iters))]_vars
    /\ [](pc = "router" =>
            /\ ValidationDone
            /\ exec_code = state.code
            /\ status = qa_status(result))

C21_Witness ==
    /\ pc = "router"
    /\ Len(qa_iters) = 3
    /\ Len(dev_iters) = 3
    /\ ~result.success

\* C22: the developer builds the initial prompt on the first pass only; on
\* every later pass it builds the fix prompt, which holds the code and the
\* report of the pass before.
C22_InitialPromptOnFirstPassOnly ==
    pc = "developer" =>
        IF Passes = 0
        THEN developer_prompt(state) = create_initial_prompt(state.requirements)
        ELSE /\ developer_prompt(state).kind = "fix"
             /\ developer_prompt(state).code = exec_code
             /\ developer_prompt(state).test_report =
                    create_test_report(result, state.requirements)

\* every field of the state outside fields keeps its value in the step
OtherFieldsKept(fields) == \A f \in (DOMAIN state) \ fields : state'[f] = state[f]

C24_RequestLimitAndRequirementsKept ==
    /\ [](Started => (state.user_request = request
                        /\ state.max_iterations = settings.max_iterations))
    /\ [](Passes >= 1 => state.requirements \in RequirementsTexts)
    /\ [][pm_runs >= 1 => state'.requirements = state.requirements]_vars

C24_Witness ==
    /\ pc = "returned"
    /\ Passes = 2
    /\ request = "is_palindrome"
    /\ settings.max_iterations = 2
    /\ state.requirements = "r2"

C28_RedirectsNest ==
    (entry = "ui" /\ Started) =>
        /\ (pc \notin {"returned", "raised"} => sys_stdout = "ui_buffer")
        /\ (Called => exec_old_stdout = "ui_buffer")
        /\ (pc \in {"returned", "raised"} => sys_stdout = "host")

----------------------------------------------------------------------------
(* Properties of the command-line entry point, checked under SpecMain *)

\* C27: main returns 0 exactly when the run ended with status passed, and
\* returns 1 for every other ending: exhaustion, a configuration error and
\* every error that leaves the workflow.
C27_ExitCodeZeroIffPassed ==
    pc \in {"exit_0", "exit_1", "unhandled"} =>
        /\ pc # "unhandled"
        /\ (pc = "exit_0" <=> status = "passed")

----------------------------------------------------------------------------
(* Properties of the two workflows side by side, checked under SpecTwin *)

\* C29: given the same max_iterations and the same generator outputs, the
\* single-file workflow and the modular one are at the same node after every
\* step, with the same status, iteration and stored code.
C29_WorkflowsAgree ==
    /\ twin.pc = pc
    /\ twin.state.status = state.status
    /\ twin.state.iteration = state.iteration
    /\ twin.state.code = state.code

----------------------------------------------------------------------------
(* Properties of clean_code applied again, checked under SpecClean *)

NoOuterFence(text) == ~startswith(text, <<Fence>>) /\ ~endswith(text, <<Fence>>)

\* text has fence tokens at the very start and the very end of its trimmed
\* form at most
SingleLayer(text) ==
    \A i \in 1..Len(strip(text)) : strip(text)[i] = Fence => i \in {1, Len(strip(text))}

\* C30: cleaning the stored code again gives the stored code, and the stored
\* code neither starts nor ends with a fence.
C30_CleanCodeIdempotent ==
    pc = "qa_tester" =>
        /\ clean_code(state.code) = state.code
        /\ NoOuterFence(state.code)

\* C30, amended: for a generator output with one layer of fences at most,
\* the stored code has no fence at its start or end; and stored code without
\* a fence at its start or end is left as it is by cleaning it again.
C30_CleanCodeIdempotentOnSingleLayer ==
    pc = "qa_tester" =>
        /\ SingleLayer(llm_response) => NoOuterFence(state.code)
        /\ NoOuterFence(state.code) => clean_code(state.code) = state.code

C30_Witness ==
    /\ pc = "qa_tester"
    /\ SingleLayer(llm_response)
    /\ startswith(llm_response, <<Blank, Fence, "python">>)
    /\ endswith(llm_response, <<Fence>>)
    /\ state.code = <<"print_a">>

====
